---- MODULE Spec2Model ----
(***************************************************************************)
(* A model of the ADFGX / ADFGVX cipher of src/main.py.                    *)
(*                                                                         *)
(* A Python str is modelled as a sequence of characters, each a TLA+       *)
(* string; the empty str "" used as a filler cell is the TLA+ string "".   *)
(* A function                                                              *)
(* that can raise returns a record: Ok(v) carries the returned value,      *)
(* Raise(e) the kind of the exception.                                     *)
(***************************************************************************)
EXTENDS Naturals, Sequences, FiniteSets

VARIABLES
    pc,          \* position in the sequence of calls
    adfgx,       \* whether the basic 5x5 version of the cipher is used
    lang,        \* language profile: "en", "cs", another name, or NoLang
    data,        \* raw matrix seed data, or None to generate randomly
    matrix,      \* the cipher table (a list of rows), or None
    plaintext,   \* text handed to encrypt / convertCharacterRepresentations
    keyword,     \* raw keyword
    ciphertext,  \* text handed to decrypt
    input_len,   \* filterKeyword's bound
    char,        \* encodeCharacter's argument
    stream,      \* the encoded text handed to the transposition alone
    encrypt_radio, \* the GUI's encrypt / decrypt selector
    result,      \* outcome of the first call of the sequence
    result2      \* outcome of the second call of the sequence

vars == <<pc, adfgx, lang, data, matrix, plaintext, keyword, ciphertext,
          input_len, char, stream, encrypt_radio, result, result2>>

\* Python's None, a value of its own that is no str and no matrix
None == <<"None">>

\* None where a language name is expected (names are TLA+ strings)
NoLang == "None"

Ok(v) == [ok |-> TRUE, val |-> v, err |-> "None"]

Raise(e) == [ok |-> FALSE, val |-> None, err |-> e]

NoResult == [ok |-> FALSE, val |-> None, err |-> "not called"]

-----------------------------------------------------------------------------
(* Bounds of the model *)

MaxRotate == 1        \* rotations the modelled random.sample may draw
MaxPlain == 2         \* longest raw plaintext of the pipeline
MaxRawKeyword == 3    \* longest raw keyword handed to filterKeyword alone
MaxInputLen == 4      \* largest bound handed to filterKeyword alone
MaxPairs == 2         \* longest encoded stream, in pairs of header letters
MaxColumns == 3       \* longest keyword of the transposition alone
MaxCipher == 4        \* longest raw ciphertext
MaxText == 5          \* longest text handed to the placeholder conversion

-----------------------------------------------------------------------------
(* Python's str and list primitives *)

ascii_uppercase ==
    <<"A","B","C","D","E","F","G","H","I","J","K","L","M",
      "N","O","P","Q","R","S","T","U","V","W","X","Y","Z">>

ascii_lowercase ==
    <<"a","b","c","d","e","f","g","h","i","j","k","l","m",
      "n","o","p","q","r","s","t","u","v","w","x","y","z">>

digits == <<"0","1","2","3","4","5","6","7","8","9">>

Range(s) == {s[i] : i \in DOMAIN s}

Whitespace == {" ", "\t", "\n"}

\* s.index(x): the first position of x in s (x occurs in s)
Index(s, x) == CHOOSE i \in DOMAIN s : s[i] = x /\ \A j \in 1..(i-1) : s[j] # x

\* "".join(strs): the strs one after the other
RECURSIVE Flatten(_)
Flatten(ss) ==
    IF ss = <<>> THEN <<>>
    ELSE IF Len(ss) = 1 THEN ss[1]
    ELSE LET half == Len(ss) \div 2
         IN  Flatten(SubSeq(ss, 1, half)) \o Flatten(SubSeq(ss, half + 1, Len(ss)))

\* "".join(cells): the cells' characters in order; an empty str adds nothing
Join(cells) == SelectSeq(cells, LAMBDA c : c # "")

\* two characters outside ASCII, written by name: U+00E9 and U+00DF
EAcute == "U+00E9"

SharpS == "U+00DF"

\* unidecode of one character: its ASCII transliteration
UnidecodeChar(c) ==
    CASE c = EAcute -> <<"e">>
      [] c = SharpS -> <<"s","s">>
      [] OTHER -> <<c>>

Unidecode(s) == Flatten([i \in DOMAIN s |-> UnidecodeChar(s[i])])

Uppercase == Range(ascii_uppercase)

Lowercase == Range(ascii_lowercase)

Digit == Range(digits)

\* str.upper() of each lowercase letter
UpperOf == [c \in Lowercase |-> ascii_uppercase[Index(ascii_lowercase, c)]]

UpperChar(c) == IF c \in Lowercase THEN UpperOf[c] ELSE c

Upper(s) == [i \in DOMAIN s |-> UpperChar(s[i])]

isalpha(c) == c \in Uppercase \/ c \in Lowercase

isdigit(c) == c \in Digit

isalnum(c) == isalpha(c) \/ isdigit(c)

RECURSIVE LStrip(_)
LStrip(s) == IF s # <<>> /\ Head(s) \in Whitespace THEN LStrip(Tail(s)) ELSE s

RECURSIVE RStrip(_)
RStrip(s) ==
    IF s # <<>> /\ s[Len(s)] \in Whitespace
    THEN RStrip(SubSeq(s, 1, Len(s) - 1))
    ELSE s

Strip(s) == RStrip(LStrip(s))

\* s.replace(old, new), old non-empty: leftmost occurrences, not overlapping
RECURSIVE Replace(_, _, _)
Replace(s, old, new) ==
    LET found == {i \in 1..(Len(s) + 1 - Len(old)) : SubSeq(s, i, i + Len(old) - 1) = old}
    IN  IF found = {} THEN s
        ELSE LET i == CHOOSE i \in found : \A j \in found : i <= j
             IN  SubSeq(s, 1, i - 1) \o new
                     \o Replace(SubSeq(s, i + Len(old), Len(s)), old, new)

\* "".join(dict.fromkeys(s)): first occurrences, in order
Dedupe(s) ==
    LET first == {i \in DOMAIN s : \A j \in 1..(i - 1) : s[j] # s[i]}
    IN  [k \in 1..Cardinality(first) |->
            s[CHOOSE i \in first : Cardinality({j \in first : j <= i}) = k]]

\* code point order of the characters a keyword can hold after filtering
Ord(c) == Index(ascii_uppercase, c)

RECURSIVE Insert(_, _)
Insert(s, c) ==
    IF s = <<>> THEN <<c>>
    ELSE IF Ord(c) < Ord(Head(s)) THEN <<c>> \o s
         ELSE <<Head(s)>> \o Insert(Tail(s), c)

\* sorted(s)
RECURSIVE Sorted(_)
Sorted(s) ==
    IF s = <<>> THEN <<>>
    ELSE Insert(Sorted(SubSeq(s, 1, Len(s) - 1)), s[Len(s)])

\* s.split(): the maximal runs of non-whitespace characters
RECURSIVE Split(_)
Split(s) ==
    LET t == LStrip(s)
        n == IF \E i \in DOMAIN t : t[i] \in Whitespace
             THEN (CHOOSE i \in DOMAIN t :
                      t[i] \in Whitespace /\ \A j \in 1..(i-1) : t[j] \notin Whitespace) - 1
             ELSE Len(t)
    IN  IF t = <<>> THEN <<>>
        ELSE <<SubSeq(t, 1, n)>> \o Split(SubSeq(t, n + 1, Len(t)))

Max(S) == CHOOSE m \in S : \A x \in S : x <= m

\* the sequences over S of length at most n
RECURSIVE SeqsUpTo(_, _)
SeqsUpTo(S, n) ==
    IF n = 0 THEN {<<>>}
    ELSE LET shorter == SeqsUpTo(S, n - 1)
         IN  shorter \cup {Append(s, x) : s \in {t \in shorter : Len(t) = n - 1}, x \in S}

-----------------------------------------------------------------------------
(* Module constants of src/main.py *)

lang_replacements ==
    [en |-> <<  <<"J">>, <<"I">>  >>,
     cs |-> <<  <<"Q">>, <<"K","J","U">>  >>]

space_representation == <<"X","S","P","E","A","C","E","X">>

digit_representations ==
    << <<"X","Z","E","R","O","X">>,
       <<"X","O","N","E","X">>,
       <<"X","T","W","O","X">>,
       <<"X","T","H","R","E","E","X">>,
       <<"X","F","O","U","R","X">>,
       <<"X","F","I","V","E","X">>,
       <<"X","S","I","X","X">>,
       <<"X","S","E","V","E","N","X">>,
       <<"X","E","I","G","H","T","X">>,
       <<"X","N","I","N","E","X">> >>

adfgx_headers == <<"A","D","F","G","X">>

adfgvx_headers == <<"A","D","F","G","V","X">>

-----------------------------------------------------------------------------
(* The core functions of src/main.py *)

\* old in s, for str operands
Contains(s, old) ==
    \E i \in 1..(Len(s) + 1 - Len(old)) : SubSeq(s, i, i + Len(old) - 1) = old

replaceLanguageSpecificCharacters(text, lng, remove) ==
    IF lng = NoLang THEN Ok(text)
    ELSE IF lng \in DOMAIN lang_replacements
         THEN Ok(Replace(Upper(text),
                         lang_replacements[lng][1],
                         IF remove = FALSE THEN lang_replacements[lng][2] ELSE <<>>))
         ELSE Raise("InvalidLanguage")

\* filterMatrixData without the removal of repeated characters
filterMatrixDataKeepsRepeats(is_adfgx, raw, lng) ==
    LET upper == Upper(Unidecode(raw))
        kept == SelectSeq(upper, LAMBDA c : IF is_adfgx THEN isalpha(c) ELSE isalnum(c))
    IN  IF is_adfgx /\ lng # NoLang /\ lng \notin DOMAIN lang_replacements
        THEN Raise("InvalidLanguage")
        ELSE IF is_adfgx /\ lng # NoLang /\ Contains(upper, lang_replacements[lng][1])
        THEN Raise("LanguageConflict")
        ELSE IF Len(kept) # (IF is_adfgx THEN 25 ELSE 36)
        THEN Raise("InvalidMatrixData")
        ELSE Ok(kept)

filterMatrixData(is_adfgx, raw, lng) ==
    LET unique == Dedupe(Upper(Unidecode(raw)))
    IN  IF is_adfgx
        THEN IF lng # NoLang /\ lng \notin DOMAIN lang_replacements
             THEN Raise("InvalidLanguage")
             ELSE IF lng # NoLang /\ Contains(unique, lang_replacements[lng][1])
             THEN Raise("LanguageConflict")
             ELSE LET removed == replaceLanguageSpecificCharacters(unique, lng, TRUE).val
                      letters == SelectSeq(removed, isalpha)
                  IN  IF Len(letters) # 25
                      THEN Raise("InvalidMatrixData")
                      ELSE Ok(letters)
        ELSE LET alnum == SelectSeq(unique, isalnum)
             IN  IF Len(alnum) # 36
                 THEN Raise("InvalidMatrixData")
                 ELSE Ok(alnum)

\* random.sample(population, len(population)): a permutation of the
\* population.  The draws the model explores are the rotations by up to
\* MaxRotate places and their reversals.
Sample(population, rotate, reversed) ==
    LET n == Len(population)
        rotated == [i \in 1..n |-> population[((i - 1 + rotate) % n) + 1]]
    IN  IF reversed THEN [i \in 1..n |-> rotated[n + 1 - i]] ELSE rotated

\* rows of `size` characters laid out from the character data
Layout(chars, size) ==
    [j \in 1..size |-> [i \in 1..size |-> chars[i + size * (j - 1)]]]

generateMatrix(is_adfgx, raw, lng, rotate, reversed) ==
    LET folded == replaceLanguageSpecificCharacters(ascii_uppercase, lng, FALSE)
        chars ==
            IF raw = None
            THEN IF is_adfgx
                 THEN IF folded.ok
                      THEN Ok(Sample(Dedupe(folded.val), rotate, reversed))
                      ELSE folded
                 ELSE Ok(Sample(ascii_uppercase \o digits, rotate, reversed))
            ELSE filterMatrixData(is_adfgx, raw, lng)
        size == IF is_adfgx THEN 5 ELSE 6
    IN  IF chars.ok THEN Ok(Layout(chars.val, size)) ELSE chars

RECURSIVE ReverseDigits(_, _)
ReverseDigits(text, k) ==
    IF k = 0 THEN text
    ELSE Replace(ReverseDigits(text, k - 1), digit_representations[k], <<digits[k]>>)

convertCharacterRepresentations(text, is_adfgx, reverse) ==
    LET spaced == IF reverse = FALSE
                  THEN Replace(text, <<" ">>, space_representation)
                  ELSE Replace(text, space_representation, <<" ">>)
    IN  IF is_adfgx
        THEN IF reverse = FALSE
             THEN Flatten([i \in DOMAIN spaced |->
                              IF isdigit(spaced[i])
                              THEN digit_representations[Index(digits, spaced[i])]
                              ELSE <<spaced[i]>>])
             ELSE ReverseDigits(spaced, Len(digit_representations))
        ELSE spaced

\* filterKeyword without the removal of repeated letters
filterKeywordKeepsRepeats(raw, bound) ==
    LET letters == SelectSeq(Strip(Upper(Unidecode(raw))), isalpha)
    IN  IF Len(letters) > bound THEN Raise("KeywordTooLong") ELSE Ok(letters)

filterKeyword(raw, bound) ==
    LET letters == SelectSeq(Strip(Upper(Unidecode(raw))), isalpha)
        unique == Dedupe(letters)
    IN  IF Len(unique) > bound THEN Raise("KeywordTooLong") ELSE Ok(unique)

Descriptors(m) == IF Len(m) = 6 THEN adfgvx_headers ELSE adfgx_headers

\* encodeCharacter with the column's letter before the row's
encodeCharacterColumnFirst(c, m) ==
    IF \E row \in DOMAIN m : c \in Range(m[row])
    THEN LET row == CHOOSE r \in DOMAIN m : c \in Range(m[r])
         IN  Ok(<<Descriptors(m)[Index(m[row], c)], Descriptors(m)[row]>>)
    ELSE Raise("SymbolNotFound")

encodeCharacter(c, m) ==
    IF \E row \in DOMAIN m : c \in Range(m[row])
    THEN LET row == CHOOSE r \in DOMAIN m :
                        c \in Range(m[r]) /\ \A q \in 1..(r-1) : c \notin Range(m[q])
             col == Index(m[row], c)
         IN  Ok(<<Descriptors(m)[row], Descriptors(m)[col]>>)
    ELSE Raise("SymbolNotFound")

\* decodeCharacter reading the pair as column, then row
decodeCharacterColumnFirst(pair, m) ==
    IF Len(pair) < 2 THEN Raise("IndexError")
    ELSE IF pair[1] \notin Range(Descriptors(m)) \/ pair[2] \notin Range(Descriptors(m))
    THEN Raise("KeyError")
    ELSE Ok(m[Index(Descriptors(m), pair[2])][Index(Descriptors(m), pair[1])])

decodeCharacter(pair, m) ==
    IF Len(pair) < 2 THEN Raise("IndexError")
    ELSE IF pair[1] \notin Range(Descriptors(m)) \/ pair[2] \notin Range(Descriptors(m))
    THEN Raise("KeyError")
    ELSE LET row == Index(Descriptors(m), pair[1])
             col == Index(Descriptors(m), pair[2])
         IN  Ok(m[row][col])

filterPlainText(text, lng, is_adfgx) ==
    LET stripped == Strip(Upper(Unidecode(text)))
        converted == convertCharacterRepresentations(stripped, is_adfgx, FALSE)
        alnum == SelectSeq(converted, isalnum)
    IN  IF is_adfgx
        THEN replaceLanguageSpecificCharacters(alnum, lng, FALSE)
        ELSE Ok(alnum)

filterCipherText(text, is_adfgx) ==
    LET stripped == Strip(Upper(Unidecode(text)))
        kept == SelectSeq(stripped, LAMBDA c : isalpha(c) \/ c = " ")
        letters == SelectSeq(kept, LAMBDA c : c # " ")
        headers == IF is_adfgx THEN adfgx_headers ELSE adfgvx_headers
    IN  IF Len(letters) % 2 > 0 THEN Raise("InvalidCiphertext")
        ELSE IF \E i \in DOMAIN kept : kept[i] \notin Range(headers) /\ kept[i] # " "
        THEN Raise("InvalidCiphertext")
        ELSE Ok(kept)

-----------------------------------------------------------------------------
(* Columnar transposition, encrypt and decrypt *)

\* the transposition of encrypt without the final strip()
TranspositionEncryptUnstripped(encoded_text, kw) ==
    IF Len(kw) = 0 THEN Raise("ZeroDivisionError")
    ELSE LET sorted == Sorted(kw)
             column(n) ==
                 SelectSeq([i \in DOMAIN encoded_text |->
                               IF ((i - 1) % Len(kw)) + 1 = Index(kw, sorted[n])
                               THEN encoded_text[i] ELSE ""],
                           LAMBDA c : c # "")
         IN  Ok(Flatten([n \in DOMAIN kw |-> column(n) \o <<" ">>]))

\* encrypt's transposition of the encoded text under the filtered keyword
TranspositionEncrypt(encoded_text, kw) ==
    LET keyword_len == Len(kw)
        encoded_len == Len(encoded_text)
    IN  IF keyword_len = 0 THEN Raise("ZeroDivisionError")
        ELSE
        LET rows == encoded_len \div keyword_len
            remainder == encoded_len % keyword_len
            full == [j \in 1..rows |->
                        [i \in 1..keyword_len |-> encoded_text[i + keyword_len * (j - 1)]]]
            keyword_grid ==
                IF remainder > 0
                THEN Append(full, [i \in 1..keyword_len |->
                                      IF i <= remainder
                                      THEN encoded_text[rows * keyword_len + i]
                                      ELSE ""])
                ELSE full
            sorted == Sorted(kw)
            blocks == [n \in 1..keyword_len |->
                          Join([j \in DOMAIN keyword_grid |->
                                   keyword_grid[j][Index(kw, sorted[n])]])
                          \o <<" ">>]
        IN  Ok(Strip(Flatten(blocks)))

\* the reconstruction of decrypt taking the blocks as the columns in the
\* keyword's own order, not in its sorted order
TranspositionDecryptUnsorted(filtered, kw) ==
    LET blocks == Split(filtered)
    IN  IF Len(blocks) < Len(kw) THEN Raise("KeyError")
        ELSE
        LET longest == IF kw = <<>> THEN 0
                       ELSE Max({Len(blocks[i]) : i \in DOMAIN kw})
            grid == [r \in 1..longest |->
                        [i \in DOMAIN kw |->
                            IF r <= Len(blocks[i]) THEN blocks[i][r] ELSE ""]]
        IN  Ok(Strip(Join(Flatten(grid))))

\* decrypt's reconstruction of the encoded text from the filtered ciphertext
TranspositionDecrypt(filtered, kw) ==
    LET blocks == Split(filtered)
        columns == [n \in DOMAIN blocks |-> blocks[Index(blocks, blocks[n])]]
        keyword_sorted == Sorted(kw)
        zipped == 1..(IF Len(keyword_sorted) < Len(columns)
                      THEN Len(keyword_sorted) ELSE Len(columns))
        InDict(c) == \E n \in zipped : keyword_sorted[n] = c
        column_dict(c) == columns[Max({n \in zipped : keyword_sorted[n] = c})]
    IN  IF \E i \in DOMAIN kw : ~InDict(kw[i]) THEN Raise("KeyError")
        ELSE
        LET column_grid == [i \in DOMAIN kw |-> column_dict(kw[i])]
            longest == IF column_grid = <<>> THEN 0
                       ELSE Max({Len(column_grid[i]) : i \in DOMAIN column_grid})
            original_grid ==
                [r \in 1..longest |->
                    [i \in DOMAIN column_grid |->
                        IF r <= Len(column_grid[i]) THEN column_grid[i][r] ELSE ""]]
        IN  Ok(Strip(Join(Flatten(original_grid))))

\* the characters of the text encoded one by one
EncodeText(text, m) == [i \in DOMAIN text |-> encodeCharacter(text[i], m)]

\* the encoded text cut into pairs, each decoded
DecodeText(encoded_text, m) ==
    [n \in 1..(Len(encoded_text) \div 2) |->
        decodeCharacter(SubSeq(encoded_text, 2 * n - 1, 2 * n), m)]

encrypt(text, raw_keyword, lng, m, is_adfgx) ==
    LET filtered == filterPlainText(text, lng, is_adfgx)
    IN  IF ~filtered.ok THEN filtered
        ELSE
        LET encoded == EncodeText(filtered.val, m)
        IN  IF \E i \in DOMAIN encoded : ~encoded[i].ok THEN Raise("SymbolNotFound")
            ELSE
            LET encoded_text == Flatten([i \in DOMAIN encoded |-> encoded[i].val])
                kw == filterKeyword(raw_keyword, Len(encoded_text))
            IN  IF ~kw.ok THEN kw
                ELSE TranspositionEncrypt(encoded_text, kw.val)

decrypt(text, raw_keyword, lng, m, is_adfgx) ==
    LET filtered == filterCipherText(text, is_adfgx)
    IN  IF ~filtered.ok THEN filtered
        ELSE
        LET kw == filterKeyword(raw_keyword,
                                Len(Replace(filtered.val, <<" ">>, <<>>)))
        IN  IF ~kw.ok THEN kw
            ELSE
            LET encoded_text == TranspositionDecrypt(filtered.val, kw.val)
            IN  IF ~encoded_text.ok THEN encoded_text
                ELSE
                LET decoded == DecodeText(encoded_text.val, m)
                IN  IF \E i \in DOMAIN decoded : ~decoded[i].ok
                    THEN Raise("KeyError")
                    ELSE Ok(convertCharacterRepresentations(
                                [i \in DOMAIN decoded |-> decoded[i].val],
                                is_adfgx, TRUE))

\* ADFGVXCipher.execute on the GUI's fields: the keyword, the input text, the
\* matrix of the selected tab (None before one is generated) and the selector
execute(raw_keyword, input_text, lng, m, is_adfgx, encrypting) ==
    IF Len(raw_keyword) < 1 \/ Len(input_text) < 1 THEN Raise("MissingInput")
    ELSE IF m = None THEN Raise("MatrixNotReady")
    ELSE IF encrypting
         THEN encrypt(input_text, raw_keyword, lng, m, is_adfgx)
         ELSE decrypt(input_text, raw_keyword, lng, m, is_adfgx)

-----------------------------------------------------------------------------
(* The inputs the model draws *)

\* the (adfgx, lang) pairs a caller can pass; "de" is no known profile
Profiles == {<<FALSE, NoLang>>, <<TRUE, NoLang>>, <<TRUE, "en">>, <<TRUE, "cs">>, <<TRUE, "de">>}

\* the permutations random.sample may draw, as Sample's arguments
Draws == (0..MaxRotate) \X BOOLEAN

\* 25 letters without J
SeedNoJ == <<"P","H","Q","G","I","U","M","E","A","Y","L","N","O",
             "F","D","X","K","R","C","V","S","T","Z","W","B">>

\* all 26 letters and 10 digits
Seed36 == Sample(ascii_uppercase \o digits, 3, TRUE)

\* the raw seed data of the pipeline: None asks for a random matrix
PipelineSeeds == {None, SeedNoJ, Seed36}

PlainChars == {"A", "j", "Q", "1", " "}

RawPlainTexts == SeqsUpTo(PlainChars, MaxPlain)

\* the raw plaintexts and the normalized plaintexts filterPlainText makes of them
PlainTexts ==
    RawPlainTexts \cup
    {filterPlainText(t, p[2], p[1]).val :
        t \in RawPlainTexts, p \in {q \in Profiles : q[2] \in {NoLang, "en", "cs"}}}

\* the raw keywords of the pipeline: empty, two and three columns, a repeated
\* letter in either case, and five columns
Keywords ==
    { <<>>, <<"B","A">>, <<"C","A","B">>, <<"b","a","B">>,
      <<"D","C","B","A","E">> }

-----------------------------------------------------------------------------
(* The pipeline: generateMatrix, then encrypt, then decrypt of its output *)

Init ==
    /\ pc = "start"
    /\ \E p \in Profiles : adfgx = p[1] /\ lang = p[2]
    /\ data \in PipelineSeeds
    /\ matrix = None
    /\ plaintext = None
    /\ keyword = None
    /\ ciphertext = None
    /\ input_len = 0
    /\ char = None
    /\ stream = None
    /\ encrypt_radio = TRUE
    /\ result = NoResult
    /\ result2 = NoResult

\* generateMatrix(adfgx, data, lang); the matrix is kept when one is returned
GenerateMatrix ==
    /\ pc = "start"
    /\ \E draw \in Draws :
          LET r == generateMatrix(adfgx, data, lang, draw[1], draw[2])
          IN  /\ matrix' = IF r.ok THEN r.val ELSE None
              /\ result' = IF r.ok THEN NoResult ELSE r
              /\ pc' = IF r.ok THEN "ready" ELSE "rejected"
    /\ UNCHANGED <<adfgx, lang, data, plaintext, keyword, ciphertext, input_len,
                   char, stream, encrypt_radio, result2>>

\* encrypt(plaintext, keyword, lang, matrix, adfgx) on a plaintext and a
\* keyword of the caller's; its output becomes the ciphertext
Encrypt ==
    /\ pc = "ready"
    /\ \E text \in PlainTexts, raw_keyword \in Keywords :
          LET r == encrypt(text, raw_keyword, lang, matrix, adfgx)
          IN  /\ plaintext' = text
              /\ keyword' = raw_keyword
              /\ result' = r
              /\ ciphertext' = IF r.ok THEN r.val ELSE None
              /\ pc' = IF r.ok THEN "encrypted" ELSE "failed"
    /\ UNCHANGED <<adfgx, lang, data, matrix, input_len,
                   char, stream, encrypt_radio, result2>>

\* decrypt(ciphertext, keyword, lang, matrix, adfgx)
Decrypt ==
    /\ pc = "encrypted"
    /\ result2' = decrypt(ciphertext, keyword, lang, matrix, adfgx)
    /\ pc' = "done"
    /\ UNCHANGED <<adfgx, lang, data, matrix, plaintext, keyword, ciphertext,
                   input_len, char, stream, encrypt_radio, result>>

Next == GenerateMatrix \/ Encrypt \/ Decrypt

Spec == Init /\ [][Next]_vars

-----------------------------------------------------------------------------
(* generateMatrix alone, on a wider choice of seed data *)

\* 25 letters without Q
SeedNoQ == SelectSeq(ascii_uppercase, LAMBDA c : c # "Q")

\* 25 letters of which one is repeated
SeedRepeated == SubSeq(SeedNoJ, 1, 24) \o <<"P">>

SeedBases ==
    {SeedNoJ, SeedNoQ, SeedRepeated, ascii_uppercase, ascii_uppercase \o digits,
     <<"A","B","C">>}

\* characters that filterMatrixData folds, drops or transliterates
SeedPrefixes == {<<>>, <<"p", "-", EAcute, "1">>}

MatrixSeeds ==
    {None} \cup
    {prefix \o Sample(base, d[1], d[2]) :
        prefix \in SeedPrefixes, base \in SeedBases, d \in Draws}

InitMatrix ==
    /\ pc = "start"
    /\ \E p \in Profiles : adfgx = p[1] /\ lang = p[2]
    /\ data \in MatrixSeeds
    /\ matrix = None
    /\ plaintext = None
    /\ keyword = None
    /\ ciphertext = None
    /\ input_len = 0
    /\ char = None
    /\ stream = None
    /\ encrypt_radio = TRUE
    /\ result = NoResult
    /\ result2 = NoResult

NextMatrix == GenerateMatrix

SpecMatrix == InitMatrix /\ [][NextMatrix]_vars

-----------------------------------------------------------------------------
(* filterKeyword alone *)

RawKeywordChars == {"b", "A", "B", EAcute, "1", " "}

\* twenty unique letters
TwentyLetters == SubSeq(ascii_uppercase, 1, 20)

InitKeyword ==
    /\ pc = "start"
    /\ keyword \in SeqsUpTo(RawKeywordChars, MaxRawKeyword) \cup {TwentyLetters}
    /\ input_len \in 0..MaxInputLen
    /\ adfgx = FALSE
    /\ lang = NoLang
    /\ data = None
    /\ matrix = None
    /\ plaintext = None
    /\ ciphertext = None
    /\ char = None
    /\ stream = None
    /\ encrypt_radio = TRUE
    /\ result = NoResult
    /\ result2 = NoResult

\* filterKeyword(keyword, input_len)
FilterKeyword ==
    /\ pc = "start"
    /\ result' = filterKeyword(keyword, input_len)
    /\ pc' = "filtered"
    /\ UNCHANGED <<adfgx, lang, data, matrix, plaintext, keyword, ciphertext,
                   input_len, char, stream, encrypt_radio, result2>>

NextKeyword == FilterKeyword

SpecKeyword == InitKeyword /\ [][NextKeyword]_vars

-----------------------------------------------------------------------------
(* encodeCharacter and decodeCharacter alone *)

ValidProfiles == {p \in Profiles : p[2] \in {NoLang, "en", "cs"}}

\* the characters looked up: every letter and digit, and a character no
\* matrix holds
CodecChars == Uppercase \cup Digit \cup {"-"}

InitCodec ==
    /\ pc = "start"
    /\ \E p \in ValidProfiles, d \in Draws :
          /\ adfgx = p[1]
          /\ lang = p[2]
          /\ matrix = generateMatrix(p[1], None, p[2], d[1], d[2]).val
    /\ char \in CodecChars
    /\ data = None
    /\ plaintext = None
    /\ keyword = None
    /\ ciphertext = None
    /\ input_len = 0
    /\ stream = None
    /\ encrypt_radio = TRUE
    /\ result = NoResult
    /\ result2 = NoResult

\* encodeCharacter(char, matrix)
EncodeCharacter ==
    /\ pc = "start"
    /\ result' = encodeCharacter(char, matrix)
    /\ pc' = IF result'.ok THEN "encoded" ELSE "absent"
    /\ UNCHANGED <<adfgx, lang, data, matrix, plaintext, keyword, ciphertext,
                   input_len, char, stream, encrypt_radio, result2>>

\* decodeCharacter(pair, matrix) on the pair encodeCharacter returned
DecodeCharacter ==
    /\ pc = "encoded"
    /\ result2' = decodeCharacter(result.val, matrix)
    /\ pc' = "decoded"
    /\ UNCHANGED <<adfgx, lang, data, matrix, plaintext, keyword, ciphertext,
                   input_len, char, stream, encrypt_radio, result>>

NextCodec == EncodeCharacter \/ DecodeCharacter

SpecCodec == InitCodec /\ [][NextCodec]_vars

-----------------------------------------------------------------------------
(* convertCharacterRepresentations alone: forward, then reverse *)

PlaceholderChars == {"X", "O", "N", "E", "1", " "}

InitPlaceholder ==
    /\ pc = "start"
    /\ plaintext \in SeqsUpTo(PlaceholderChars, MaxText)
    /\ adfgx \in BOOLEAN
    /\ lang = NoLang
    /\ data = None
    /\ matrix = None
    /\ keyword = None
    /\ ciphertext = None
    /\ input_len = 0
    /\ char = None
    /\ stream = None
    /\ encrypt_radio = TRUE
    /\ result = NoResult
    /\ result2 = NoResult

\* convertCharacterRepresentations(plaintext, adfgx, reverse=False)
ConvertForward ==
    /\ pc = "start"
    /\ result' = Ok(convertCharacterRepresentations(plaintext, adfgx, FALSE))
    /\ pc' = "converted"
    /\ UNCHANGED <<adfgx, lang, data, matrix, plaintext, keyword, ciphertext,
                   input_len, char, stream, encrypt_radio, result2>>

\* convertCharacterRepresentations(converted, adfgx, reverse=True)
ConvertReverse ==
    /\ pc = "converted"
    /\ result2' = Ok(convertCharacterRepresentations(result.val, adfgx, TRUE))
    /\ pc' = "restored"
    /\ UNCHANGED <<adfgx, lang, data, matrix, plaintext, keyword, ciphertext,
                   input_len, char, stream, encrypt_radio, result>>

NextPlaceholder == ConvertForward \/ ConvertReverse

SpecPlaceholder == InitPlaceholder /\ [][NextPlaceholder]_vars

-----------------------------------------------------------------------------
(* The columnar transposition alone: encrypt's step, then decrypt's *)

StreamLetters == {"A", "D", "X"}

\* the streams of header letters of even length
Streams == {t \in SeqsUpTo(StreamLetters, 2 * MaxPairs) : Len(t) % 2 = 0}

ColumnLetters == {"C", "A", "D", "B"}

\* the keywords of pairwise-distinct letters, the empty one included
ColumnKeywords ==
    {k \in SeqsUpTo(ColumnLetters, MaxColumns) :
        \A i, j \in DOMAIN k : i # j => k[i] # k[j]}

InitTransposition ==
    /\ pc = "start"
    /\ stream \in Streams
    /\ keyword \in ColumnKeywords
    /\ adfgx = FALSE
    /\ lang = NoLang
    /\ data = None
    /\ matrix = None
    /\ plaintext = None
    /\ ciphertext = None
    /\ input_len = 0
    /\ char = None
    /\ encrypt_radio = TRUE
    /\ result = NoResult
    /\ result2 = NoResult

\* the transposition step of encrypt on the stream
TransposeEncrypt ==
    /\ pc = "start"
    /\ result' = TranspositionEncrypt(stream, keyword)
    /\ ciphertext' = IF result'.ok THEN result'.val ELSE None
    /\ pc' = IF result'.ok THEN "transposed" ELSE "failed"
    /\ UNCHANGED <<adfgx, lang, data, matrix, plaintext, keyword,
                   input_len, char, stream, encrypt_radio, result2>>

\* the transposition step of decrypt on the blocks encrypt's step produced
TransposeDecrypt ==
    /\ pc = "transposed"
    /\ result2' = TranspositionDecrypt(ciphertext, keyword)
    /\ pc' = "restored"
    /\ UNCHANGED <<adfgx, lang, data, matrix, plaintext, keyword, ciphertext,
                   input_len, char, stream, encrypt_radio, result>>

NextTransposition == TransposeEncrypt \/ TransposeDecrypt

SpecTransposition == InitTransposition /\ [][NextTransposition]_vars

-----------------------------------------------------------------------------
(* Requests: the GUI's execute handler, and encrypt and decrypt called on   *)
(* texts of the caller's                                                    *)

\* the (adfgx, lang) pairs the GUI's tabs and radio buttons give
GuiProfiles == {<<FALSE, NoLang>>, <<TRUE, "en">>, <<TRUE, "cs">>}

CipherChars == {"A", "D", "V", " ", "1"}

RawCipherTexts == SeqsUpTo(CipherChars, MaxCipher)

RequestPlainTexts ==
    { <<>>, <<"A">>, <<"a", "-", "B">>, <<"A", " ", "1">>, <<EAcute>>, <<"-">> }

\* empty, empty once filtered (digits, punctuation, whitespace), and letters
RequestKeywords ==
    { <<>>, <<"1">>, <<"-", " ">>, <<"A">>, <<"B", "A">> }

InitRequest ==
    /\ pc = "start"
    /\ \E p \in GuiProfiles :
          /\ adfgx = p[1]
          /\ lang = p[2]
          /\ matrix \in {None, generateMatrix(p[1], None, p[2], 0, FALSE).val}
    /\ keyword \in RequestKeywords
    /\ encrypt_radio \in BOOLEAN
    /\ plaintext \in IF encrypt_radio THEN RequestPlainTexts ELSE {None}
    /\ ciphertext \in IF encrypt_radio THEN {None} ELSE RawCipherTexts
    /\ data = None
    /\ input_len = 0
    /\ char = None
    /\ stream = None
    /\ result = NoResult
    /\ result2 = NoResult

\* ADFGVXCipher.execute: the error shown, or the output
Execute ==
    /\ pc = "start"
    /\ result' = execute(keyword, IF encrypt_radio THEN plaintext ELSE ciphertext,
                         lang, matrix, adfgx, encrypt_radio)
    /\ pc' = "executed"
    /\ UNCHANGED <<adfgx, lang, data, matrix, plaintext, keyword, ciphertext,
                   input_len, char, stream, encrypt_radio, result2>>

\* encrypt(plaintext, keyword, lang, matrix, adfgx) called directly
CallEncrypt ==
    /\ pc = "start"
    /\ encrypt_radio
    /\ matrix # None
    /\ result' = encrypt(plaintext, keyword, lang, matrix, adfgx)
    /\ pc' = "encrypt returned"
    /\ UNCHANGED <<adfgx, lang, data, matrix, plaintext, keyword, ciphertext,
                   input_len, char, stream, encrypt_radio, result2>>

\* decrypt(ciphertext, keyword, lang, matrix, adfgx) called directly
CallDecrypt ==
    /\ pc = "start"
    /\ ~encrypt_radio
    /\ matrix # None
    /\ result' = decrypt(ciphertext, keyword, lang, matrix, adfgx)
    /\ pc' = "decrypt returned"
    /\ UNCHANGED <<adfgx, lang, data, matrix, plaintext, keyword, ciphertext,
                   input_len, char, stream, encrypt_radio, result2>>

NextRequest == Execute \/ CallEncrypt \/ CallDecrypt

SpecRequest == InitRequest /\ [][NextRequest]_vars

-----------------------------------------------------------------------------
(* Claims about the pipeline *)

Headers(is_adfgx) == IF is_adfgx THEN Range(adfgx_headers) ELSE Range(adfgvx_headers)

MatrixSymbols(m) == UNION {Range(m[r]) : r \in DOMAIN m}

\* the plaintext as encrypt normalizes it
Normalized == filterPlainText(plaintext, lang, adfgx)

\* the keyword as encrypt filters it, bounded by the encoded text's length
NormalizedKeyword == filterKeyword(keyword, 2 * Len(Normalized.val))

\* encrypt was called on an already normalized plaintext
PlaintextIsNormalized ==
    /\ pc \in {"failed", "encrypted", "done"}
    /\ Normalized.ok
    /\ Normalized.val = plaintext

\* the preconditions of the round trip: a matrix holding every symbol of the
\* normalized plaintext, and a keyword that is non-empty and within the bound
RoundTripInputs ==
    /\ PlaintextIsNormalized
    /\ Range(plaintext) \subseteq MatrixSymbols(matrix)
    /\ NormalizedKeyword.ok
    /\ Len(NormalizedKeyword.val) >= 1

ColumnOf(encoded, col, columns) ==
    LET at == {i \in DOMAIN encoded : ((i - 1) % columns) + 1 = col}
        RECURSIVE Pick(_)
        Pick(i) == IF i > Len(encoded) THEN <<>>
                   ELSE (IF i \in at THEN <<encoded[i]>> ELSE <<>>) \o Pick(i + 1)
    IN  Pick(1)

\* the runs of letters between the spaces of a text, empty runs included
RECURSIVE Blocks(_)
Blocks(text) ==
    IF \E i \in DOMAIN text : text[i] = " "
    THEN LET i == CHOOSE j \in DOMAIN text :
                     text[j] = " " /\ \A q \in 1..(j-1) : text[q] # " "
         IN  <<SubSeq(text, 1, i - 1)>> \o Blocks(SubSeq(text, i + 1, Len(text)))
    ELSE <<text>>

\* C6: a string returned by encrypt holds header letters of the variant and
\* single spaces only, with no space at either end nor two in a row; it has
\* one block per letter of the normalized keyword, the blocks being the
\* grid's columns in ascending order of the keyword's letters; and it has
\* 2 x |normalized plaintext| letters.
C6_WireFormat ==
    (pc \in {"encrypted", "done"}) =>
        LET k == NormalizedKeyword.val
            encoded == Flatten([i \in DOMAIN Normalized.val |->
                                   encodeCharacter(Normalized.val[i], matrix).val])
            blocks == Blocks(ciphertext)
        IN  /\ ciphertext = result.val
            /\ Range(ciphertext) \subseteq Headers(adfgx) \cup {" "}
            /\ ciphertext # <<>>
            /\ ciphertext[1] # " " /\ ciphertext[Len(ciphertext)] # " "
            /\ \A i \in 1..(Len(ciphertext) - 1) :
                  ~(ciphertext[i] = " " /\ ciphertext[i + 1] = " ")
            /\ Len(blocks) = Len(k)
            /\ \A n \in DOMAIN blocks :
                  blocks[n] = ColumnOf(encoded, Index(k, Sorted(k)[n]), Len(k))
            /\ Len(SelectSeq(ciphertext, LAMBDA c : c # " ")) = 2 * Len(Normalized.val)
            /\ Len(SelectSeq(ciphertext, LAMBDA c : c # " ")) % 2 = 0

\* encrypt returned a ciphertext of three blocks from a grid whose last row
\* is partial
C6_Witness ==
    /\ pc = "encrypted"
    /\ Len(NormalizedKeyword.val) = 3
    /\ (2 * Len(Normalized.val)) % 3 > 0
    /\ Len(Blocks(ciphertext)) = 3

\* C10: whatever matrix generateMatrix returned for the variant and the
\* language profile, every character of the plaintext as encrypt normalizes
\* it occurs in the matrix, and encrypt does not fail in encodeCharacter.
C10_SymbolNotFoundCannotOccur ==
    (pc \in {"failed", "encrypted", "done"} /\ Normalized.ok) =>
        /\ Range(Normalized.val) \subseteq MatrixSymbols(matrix)
        /\ result.err # "SymbolNotFound"

-----------------------------------------------------------------------------
(* Claims about the transposition alone *)

\* C1: for an even-length stream s of header letters and a non-empty keyword
\* k of pairwise-distinct letters with |k| <= |s|, encrypt's transposition
\* step returns blocks from which decrypt's transposition step reconstructs
\* s exactly, whether or not |k| divides |s|.
C1_TranspositionRoundTrip ==
    (pc # "start" /\ Len(keyword) >= 1 /\ Len(keyword) <= Len(stream)) =>
        /\ result.ok
        /\ pc = "restored" => result2 = Ok(stream)

\* a stream restored through a grid with a partial last row, under a keyword
\* that is not in sorted order
C1_Witness ==
    /\ pc = "restored"
    /\ result2 = Ok(stream)
    /\ Len(keyword) = 3
    /\ Len(stream) % Len(keyword) > 0
    /\ keyword # Sorted(keyword)

-----------------------------------------------------------------------------
(* Claims about generateMatrix alone *)

\* C3: a matrix returned by generateMatrix has side rows of side entries,
\* side = 5 (ADFGX) or 6 (ADFGVX); its side^2 entries are pairwise distinct,
\* letters only for side 5 and letters or digits for side 6.
C3_MatrixIsValid ==
    (pc = "ready") =>
        LET side == IF adfgx THEN 5 ELSE 6
        IN  /\ Len(matrix) = side
            /\ \A r \in DOMAIN matrix : Len(matrix[r]) = side
            /\ Cardinality(MatrixSymbols(matrix)) = side * side
            /\ \A c \in MatrixSymbols(matrix) :
                  IF adfgx THEN isalpha(c) ELSE isalnum(c)

\* a 5x5 matrix imported from seed data that needed folding and filtering
C3_Witness ==
    /\ pc = "ready"
    /\ adfgx
    /\ lang = "en"
    /\ data # None
    /\ data[1] = "p"

-----------------------------------------------------------------------------
(* Claims about filterKeyword alone *)

\* C4: filterKeyword either returns pairwise-distinct uppercase letters, the
\* raw keyword's letters in the order of their first occurrence, at most
\* input_len of them, or raises KeywordTooLong, and it raises only when the
\* distinct letters are more than input_len; twenty unique letters against a
\* bound of 4 raise KeywordTooLong.
C4_KeywordFiltered ==
    (pc = "filtered") =>
        LET letters == SelectSeq(Upper(Unidecode(keyword)), isalpha)
            k == result.val
        IN  /\ \/ /\ result.ok
                  /\ Len(k) <= input_len
                  /\ \A i, j \in DOMAIN k : i # j => k[i] # k[j]
                  /\ Range(k) \subseteq Uppercase
                  /\ Range(k) = Range(letters)
                  /\ \A i, j \in DOMAIN k :
                        i < j => Index(letters, k[i]) < Index(letters, k[j])
               \/ /\ ~result.ok
                  /\ result.err = "KeywordTooLong"
                  /\ Cardinality(Range(letters)) > input_len
            /\ (keyword = TwentyLetters /\ input_len = 4) =>
                  result.err = "KeywordTooLong"

\* a keyword returned with a repeated letter and other characters dropped
C4_Witness ==
    /\ pc = "filtered"
    /\ result = Ok(<<"B", "A">>)
    /\ keyword = <<"b", "A", "B">>

-----------------------------------------------------------------------------
(* Claims about requests *)

\* the letters a raw keyword keeps once filtered
KeywordLetters == SelectSeq(Upper(Unidecode(keyword)), isalpha)

\* the ciphertext holds only header letters of the variant and spaces, and
\* an even number of letters
WellFormedCiphertext ==
    /\ Range(ciphertext) \subseteq Headers(adfgx) \cup {" "}
    /\ Len(SelectSeq(ciphertext, LAMBDA c : c # " ")) % 2 = 0

\* C5: decrypt fails with InvalidCiphertext on a ciphertext holding a
\* character other than the variant's header letters and spaces, or an odd
\* number of letters; it returns no plaintext for it.  (Stated for keywords
\* that keep a letter and no more letters than the ciphertext holds, so that
\* the keyword plays no part.)
C5_InvalidCiphertextRejected ==
    (/\ pc = "decrypt returned"
     /\ KeywordLetters # <<>>
     /\ Len(KeywordLetters) <= Len(SelectSeq(ciphertext, isalpha))
     /\ ~WellFormedCiphertext)
    => result = Raise("InvalidCiphertext")

\* C7: a request whose keyword is empty once filtered fails with
\* MissingInput.  (Stated for requests with a matrix and, when decrypting,
\* a well-formed ciphertext, so that nothing else is wrong with them.)
C7_EmptyKeywordIsMissingInput ==
    (/\ pc = "executed"
     /\ matrix # None
     /\ encrypt_radio \/ WellFormedCiphertext
     /\ KeywordLetters = <<>>)
    => result = Raise("MissingInput")

-----------------------------------------------------------------------------
(* Claims about the codec alone *)

\* C8: for a symbol of the matrix, encodeCharacter returns the header letter
\* of the symbol's row followed by that of its column, header letters of the
\* matrix's size, and decodeCharacter of that pair returns the symbol.
C8_CodecRoundTrip ==
    LET headers == IF Len(matrix) = 6 THEN adfgvx_headers ELSE adfgx_headers
    IN  /\ (pc # "start" /\ char \in MatrixSymbols(matrix)) =>
              /\ result.ok
              /\ \E r, c \in DOMAIN matrix :
                    /\ matrix[r][c] = char
                    /\ result.val = <<headers[r], headers[c]>>
        /\ (pc = "decoded") => result2 = Ok(char)

\* a symbol of a 5x5 matrix, off the diagonal, encoded and decoded
C8_Witness ==
    /\ pc = "decoded"
    /\ Len(matrix) = 5
    /\ result.val[1] # result.val[2]
    /\ result2 = Ok(char)

-----------------------------------------------------------------------------
(* Claims about the placeholder conversion alone *)

\* C9: the reverse conversion of the forward conversion of a text is the
\* text.
C9_PlaceholdersReversible ==
    (pc = "restored") => result2 = Ok(plaintext)

-----------------------------------------------------------------------------
(* Claims about the blocks decrypt consumes *)

\* the ciphertext as decrypt validates it
FilteredCiphertext == filterCipherText(ciphertext, adfgx)

\* the keyword as decrypt filters it, bounded by the ciphertext's letters
DecryptKeyword ==
    filterKeyword(keyword, Len(Replace(FilteredCiphertext.val, <<" ">>, <<>>)))

\* C11: when the ciphertext passes validation and the normalized keyword is
\* non-empty and within the bound, decrypt returns, and the encoded stream it
\* rebuilds from the blocks holds every letter of the ciphertext: no block
\* and no letter is dropped.
C11_DecryptConsumesEveryBlock ==
    (/\ pc = "decrypt returned"
     /\ FilteredCiphertext.ok
     /\ DecryptKeyword.ok
     /\ DecryptKeyword.val # <<>>) =>
        LET rebuilt == TranspositionDecrypt(FilteredCiphertext.val, DecryptKeyword.val)
        IN  /\ result.ok
            /\ rebuilt.ok
            /\ Len(rebuilt.val) = Len(SelectSeq(FilteredCiphertext.val, isalpha))

====
